---- MODULE Spec2Model ----
(***************************************************************************)
(* Model of flopy/modpath/mp6sim.py: the MODPATH 6 simulation-control file  *)
(* package (Modpath6Sim) and the starting-locations file package           *)
(* (StartingLocationsFile).                                                 *)
(*                                                                         *)
(* A written file is a sequence of lines.  A line of the control file is   *)
(* [item |-> <Modpath item>, vals |-> <the integers written on it>]; file  *)
(* names, headings and arrays written by Util3d.get_file_entry are lines   *)
(* whose vals identify the object written.  Times are integers.  None is   *)
(* the empty sequence and a number t is <<t>> for the optional stop_time.  *)
(***************************************************************************)
EXTENDS Integers, Sequences, FiniteSets, TLC

VARIABLES
    \* ---- Modpath6Sim fields
    option_flags,       \* self.option_flags: the 12 flags, a mutable list
    options_dict,       \* self.options_dict: name -> flag, built in __init__
    ref_time_per_stp,   \* self.ref_time_per_stp: <<Period, Step, TimeFraction>>, 0-based
    stop_time,          \* self.stop_time: <<>> (None) or <<t>>
    time_ct,            \* self.time_ct
    time_pts,           \* self.time_pts
    cell_bd_ct,         \* self.cell_bd_ct
    retard_fac,         \* type of self.retard_fac / self.retard_fcCB: "float" or "Util3d"
    \* ---- outcome of Modpath6Sim.write_file and Modpath6Sim.check
    sim_file,           \* lines of the control file on disk (<<>>: no file)
    sim_ret,            \* "not_called", "ok" or the exception the last write_file raised
    sim_handle,         \* f_sim of the last write_file: "none", "open" or "closed"
    chk,                \* summary entries of the check object the last check() built
    chk_ret,            \* "not_called", "ok" or the exception the last check() raised
    \* ---- StartingLocationsFile fields and environment
    data,               \* self.data: the stored particle records
    use_pandas,         \* self.use_pandas
    pd,                 \* module-level pd: TRUE when pandas could be imported
    \* ---- outcome of StartingLocationsFile.write_file
    loc_file,           \* the starting-locations file on disk
    loc_ret,            \* "not_called", "noop", "ok"
    loc_handle          \* handle opened by the last write_file: "none" or "closed"

simvars == <<option_flags, options_dict, ref_time_per_stp, stop_time, time_ct,
             time_pts, cell_bd_ct, retard_fac, sim_file, sim_ret, sim_handle,
             chk, chk_ret>>
locvars == <<data, use_pandas, pd, loc_file, loc_ret, loc_handle>>
vars == <<simvars, locvars>>

\* ------------------------------------------------------------------ bounds
\* Option flags that may differ from the constructor's defaults, counting the
\* in-place assignments made after construction.
MaxEdits == 2
\* Longest time_pts list.
MaxPts == 2
\* Most particle records in a record set.
MaxRows == 3

\* ------------------------------------------------- Modpath6Sim: construction
options_list ==
    <<"SimulationType", "TrackingDirection", "WeakSinkOption", "WeakSourceOption",
      "ReferenceTimeOption", "StopOption", "ParticleGenerationOption",
      "TimePointOption", "BudgetOutputOption", "ZoneArrayOption",
      "RetardationOption", "AdvectiveObservationsOption">>

\* The default of the constructor's option_flags argument.
DefaultFlags == <<1, 2, 1, 1, 1, 2, 2, 1, 2, 1, 1, 1>>

\* Largest legal value of each flag (MODPATH 6 simulation file, item 3).
LegalMax == <<3, 2, 2, 2, 2, 3, 2, 3, 4, 2, 2, 3>>

\* dict(list(zip(options_list, option_flags)))
MakeOptionsDict(flags) ==
    [n \in {options_list[i] : i \in 1..12} |->
        flags[CHOOSE i \in 1..12 : options_list[i] = n]]

\* The values of a dict in the order of options_list.
DictValues(d) == [i \in 1..12 |-> d[options_list[i]]]

\* Positions at which two flag vectors differ.
Dist(a, b) == Cardinality({i \in 1..12 : a[i] # b[i]})

RECURSIVE Near(_, _)
\* Legal flag vectors that differ from base at no more than k positions.
Near(base, k) ==
    IF k = 0 THEN {base}
    ELSE LET prev == Near(base, k - 1)
         IN  prev \cup {[w EXCEPT ![i] = v] :
                          w \in prev, <<i, v>> \in {<<j, u>> \in (1..12) \X (1..4) : u <= LegalMax[j]}}

\* Values a caller gives the times of the model.
TimeVals == {1, 2}
RECURSIVE SeqsUpTo(_, _)
SeqsUpTo(S, n) ==
    IF n = 0 THEN {<<>>}
    ELSE LET prev == SeqsUpTo(S, n - 1)
         IN  prev \cup {Append(s, x) : s \in {p \in prev : Len(p) = n - 1}, x \in S}

\* ------------------------------------- Modpath6Sim: fields fixed in the model
\* Three release groups; group_ct = len(group_name).
group_name == <<"group_1", "group_2", "group_3">>
group_ct == Len(group_name)
\* (Grid, GridCellRegionOption, PlacementOption, ReleaseStartTime, ReleaseOption, CHeadOption)
group_placement == << <<1, 1, 1, 0, 2, 1>>, <<1, 2, 2, 0, 1, 1>>, <<1, 3, 3, 0, 1, 1>> >>
release_times == << <<1, 1>>, <<1, 1>>, <<1, 1>> >>
group_region == << <<0, 0, 0, 0, 1, 2>>, <<0, 0, 0, 0, 0, 0>>, <<0, 0, 0, 0, 0, 0>> >>
mask_layer == <<1, 1, 1>>
face_ct == <<2, 1, 1>>
ifaces == << << <<6, 1, 1>>, <<5, 2, 2>> >>, << <<6, 1, 1>> >>, << <<6, 1, 1>> >> >>
particle_cell_cnt == << <<2, 2, 2>>, <<2, 3, 4>>, <<2, 2, 2>> >>
\* (Grid, Layer, Row, Column), 0-based layer, row and column
bud_loc == << <<1, 0, 0, 0>>, <<1, 1, 2, 3>> >>
trace_id == 1
stop_zone == 1
ref_time == 0
release_time_incr == 1

Line(item, vals) == [item |-> item, vals |-> vals]

\* ------------------------------------------------- Modpath6Sim.write_file
\* The writer's progress: the lines written so far and the exception raised
\* ("none" while it runs).  A statement after a raise does nothing.
Start == [lines |-> <<>>, exc |-> "none"]
Write(st, ls) == IF st.exc # "none" THEN st ELSE [st EXCEPT !.lines = @ \o ls]
Raise(st, e) == IF st.exc # "none" THEN st ELSE [st EXCEPT !.exc = e]

\* items 0-2: the two heading lines, the name file, the list file
Item0to2(st) ==
    Write(st, <<Line("heading", <<>>), Line("mp_name_file", <<>>),
                Line("mp_list_file", <<>>)>>)

\* item 3: the 12 flags are read from self.option_flags
Item3(st) == Write(st, <<Line("option_flags", option_flags)>>)

\* items 4-6: endpoint file; pathline file; time-series file
Item4to6(st) ==
    LET a == Write(st, <<Line("endpoint_file", <<>>)>>)
        b == IF options_dict["SimulationType"] = 2
             THEN Write(a, <<Line("pathline_file", <<>>)>>) ELSE a
    IN  IF options_dict["SimulationType"] = 3
        THEN Write(b, <<Line("time_ser_file", <<>>)>>) ELSE b

\* item 7: the second operand of the condition reads self.option_dict, an
\* attribute that is never assigned; `and` evaluates it only when the first
\* operand is true, and the read raises AttributeError.
Item7(st) ==
    IF options_dict["AdvectiveObservationsOption"] = 2
    THEN Raise(st, "AttributeError")
    ELSE st

\* items 8-9: reference time, or Period + 1, Step + 1, TimeFraction
Item8to9(st) ==
    LET a == IF options_dict["ReferenceTimeOption"] = 1
             THEN Write(st, <<Line("ref_time", <<ref_time>>)>>) ELSE st
    IN  IF options_dict["ReferenceTimeOption"] = 2
        THEN Write(a, <<Line("ref_time_per_stp",
                             <<ref_time_per_stp[1] + 1, ref_time_per_stp[2] + 1,
                               ref_time_per_stp[3]>>)>>)
        ELSE a

\* item 10: f"{self.stop_time:f}" raises TypeError for None
Item10(st) ==
    IF options_dict["StopOption"] = 3
    THEN IF stop_time = <<>> THEN Raise(st, "TypeError")
         ELSE Write(st, <<Line("stop_time", stop_time)>>)
    ELSE st

\* items 12-21 for group i (1-based here, range(self.group_ct) in the code)
GroupLines(i) ==
    LET Grid == group_placement[i][1]
        GridCellRegionOption == group_placement[i][2]
        PlacementOption == group_placement[i][3]
        ReleaseStartTime == group_placement[i][4]
        ReleaseOption == group_placement[i][5]
        CHeadOption == group_placement[i][6]
        item12 == <<Line("group_name", <<i>>)>>
        item13 == <<Line("group_placement", group_placement[i])>>
        item14 == IF ReleaseOption = 2
                  THEN <<Line("release_times", release_times[i])>> ELSE <<>>
        item15 == IF GridCellRegionOption = 1
                  THEN <<Line("group_region", [k \in 1..6 |-> group_region[i][k] + 1])>>
                  ELSE <<>>
        item16 == IF GridCellRegionOption = 2
                  THEN <<Line("mask_nlay", <<i>>)>> ELSE <<>>
        item17 == IF GridCellRegionOption = 3
                  THEN <<Line("mask_layer", <<mask_layer[i]>>), Line("mask_1lay", <<i>>)>>
                  ELSE <<>>
        item19 == IF PlacementOption = 1
                  THEN <<Line("face_ct", <<face_ct[i]>>)>>
                       \o [j \in 1..face_ct[i] |-> Line("ifaces", ifaces[i][j])]
                  ELSE IF PlacementOption = 2
                  THEN <<Line("particle_cell_cnt", particle_cell_cnt[i])>>
                  ELSE <<>>
    IN  item12 \o item13 \o item14 \o item15 \o item16 \o item17 \o item19

RECURSIVE GroupsFrom(_)
GroupsFrom(i) == IF i > group_ct THEN <<>> ELSE GroupLines(i) \o GroupsFrom(i + 1)

\* items 11-22: the release groups, or the starting-locations file name
Item11to22(st) ==
    LET a == IF options_dict["ParticleGenerationOption"] = 1
             THEN Write(st, <<Line("group_ct", <<group_ct>>)>> \o GroupsFrom(1))
             ELSE st
    IN  IF options_dict["ParticleGenerationOption"] = 2
        THEN Write(a, <<Line("strt_file", <<>>)>>) ELSE a

Min(a, b) == IF a <= b THEN a ELSE b

\* items 23-25: time-point count, release time increment, time points.
\* time_pts[r] for r in range(time_ct) raises IndexError past the list's end.
Item23to25(st) ==
    IF options_dict["TimePointOption"] # 1
    THEN LET a == IF options_dict["TimePointOption"] = 2
                     \/ options_dict["TimePointOption"] = 3
                  THEN Write(st, <<Line("time_ct", <<time_ct>>)>>) ELSE st
             b == IF options_dict["TimePointOption"] = 2
                  THEN Write(a, <<Line("release_time_incr", <<release_time_incr>>)>>)
                  ELSE a
         IN  IF options_dict["TimePointOption"] = 3
             THEN LET c == Write(b, [r \in 1..Min(time_ct, Len(time_pts)) |->
                                        Line("time_pts", <<time_pts[r]>>)])
                  IN  IF time_ct > Len(time_pts) THEN Raise(c, "IndexError") ELSE c
             ELSE b
    ELSE st

\* Item26to29 writing every entry of bud_loc instead of the first cell_bd_ct.
Item26to29_AllCells(st) ==
    IF options_dict["BudgetOutputOption"] # 1 \/ options_dict["BudgetOutputOption"] # 2
    THEN LET a == IF options_dict["BudgetOutputOption"] = 3
                  THEN Write(st, <<Line("cell_bd_ct", <<cell_bd_ct>>)>>
                                  \o [k \in 1..Len(bud_loc) |->
                                        Line("bud_loc",
                                             <<bud_loc[k][1], bud_loc[k][2] + 1,
                                               bud_loc[k][3] + 1, bud_loc[k][4] + 1>>)])
                  ELSE st
         IN  IF options_dict["BudgetOutputOption"] = 4
             THEN Write(a, <<Line("trace_file", <<>>), Line("trace_id", <<trace_id>>)>>)
             ELSE a
    ELSE st

\* items 26-29: the budget block; the outer condition is an `or` of two
\* inequalities on the same flag.
Item26to29(st) ==
    IF options_dict["BudgetOutputOption"] # 1 \/ options_dict["BudgetOutputOption"] # 2
    THEN LET a == IF options_dict["BudgetOutputOption"] = 3
                  THEN LET c == Write(st, <<Line("cell_bd_ct", <<cell_bd_ct>>)>>
                                  \o [k \in 1..Min(cell_bd_ct, Len(bud_loc)) |->
                                        Line("bud_loc",
                                             <<bud_loc[k][1], bud_loc[k][2] + 1,
                                               bud_loc[k][3] + 1, bud_loc[k][4] + 1>>)])
                       IN  IF cell_bd_ct > Len(bud_loc) THEN Raise(c, "IndexError") ELSE c
                  ELSE st
         IN  IF options_dict["BudgetOutputOption"] = 4
             THEN Write(a, <<Line("trace_file", <<>>), Line("trace_id", <<trace_id>>)>>)
             ELSE a
    ELSE st

\* items 30-31: stop zone and the zone array (a Util3d built in __init__)
Item30to31(st) ==
    IF options_dict["ZoneArrayOption"] # 1
    THEN Write(st, <<Line("stop_zone", <<stop_zone>>), Line("zone", <<>>)>>)
    ELSE st

\* items 32-33: retard_fac and retard_fcCB are stored as given; a float has
\* no get_file_entry and the call raises AttributeError.
Item32to33(st) ==
    IF options_dict["RetardationOption"] # 1
    THEN IF retard_fac = "Util3d"
         THEN Write(st, <<Line("retard_fac", <<>>), Line("retard_fcCB", <<>>)>>)
         ELSE Raise(st, "AttributeError")
    ELSE st

\* The body of write_file between open() and close().
WriteBody ==
    Item32to33(Item30to31(Item26to29(Item23to25(Item11to22(
        Item10(Item8to9(Item7(Item4to6(Item3(Item0to2(Start)))))))))))

\* f_sim.close() is the last statement: it runs only when nothing raised.
HandleAfter(exc) == IF exc = "none" THEN "closed" ELSE "open"

\* Modpath6Sim.write_file(): open(fn_path, "w") replaces the file's content.
WriteFile ==
    /\ LET end == WriteBody
       IN  /\ sim_file' = end.lines
           /\ sim_ret' = (IF end.exc = "none" THEN "ok" ELSE end.exc)
           /\ sim_handle' = HandleAfter(end.exc)
    /\ UNCHANGED <<option_flags, options_dict, ref_time_per_stp, stop_time, time_ct,
                   time_pts, cell_bd_ct, retard_fac, chk, chk_ret, locvars>>

\* --------------------------------------------------------- Modpath6Sim.check
Entry(type, value, desc) == [type |-> type, value |-> value, desc |-> desc]

\* CheckBody with the comparison time_pts[-1] <= stop_time.
CheckBody_LessEqual ==
    IF options_dict["StopOption"] = 3 /\ options_dict["TimePointOption"] = 3
    THEN IF time_pts = <<>> THEN [summary |-> <<>>, exc |-> "IndexError"]
         ELSE IF stop_time = <<>> THEN [summary |-> <<>>, exc |-> "TypeError"]
         ELSE IF time_pts[Len(time_pts)] <= stop_time[1]
         THEN [summary |-> <<Entry("Error", stop_time,
                                   "Stop time greater than last TimePoint")>>,
               exc |-> "none"]
         ELSE [summary |-> <<Entry("Passed", <<>>, "Valid stop time")>>,
               exc |-> "none"]
    ELSE [summary |-> <<>>, exc |-> "none"]

\* The entries check() adds to a new check object, and how it ends.
\* time_pts[-1] raises IndexError on an empty list; comparing a number with
\* None raises TypeError.
CheckBody ==
    IF options_dict["StopOption"] = 3 /\ options_dict["TimePointOption"] = 3
    THEN IF time_pts = <<>> THEN [summary |-> <<>>, exc |-> "IndexError"]
         ELSE IF stop_time = <<>> THEN [summary |-> <<>>, exc |-> "TypeError"]
         ELSE IF time_pts[Len(time_pts)] < stop_time[1]
         THEN [summary |-> <<Entry("Error", stop_time,
                                   "Stop time greater than last TimePoint")>>,
               exc |-> "none"]
         ELSE [summary |-> <<Entry("Passed", <<>>, "Valid stop time")>>,
               exc |-> "none"]
    ELSE [summary |-> <<>>, exc |-> "none"]

Check ==
    /\ LET end == CheckBody
       IN  /\ chk' = end.summary
           /\ chk_ret' = (IF end.exc = "none" THEN "ok" ELSE end.exc)
    /\ UNCHANGED <<option_flags, options_dict, ref_time_per_stp, stop_time, time_ct,
                   time_pts, cell_bd_ct, retard_fac, sim_file, sim_ret, sim_handle,
                   locvars>>

\* ------------------------------------- in-place changes of the option flags
\* The caller configures the object, then validates and writes it: the flags
\* are changed before the first check() or write_file().
Configuring == sim_ret = "not_called" /\ chk_ret = "not_called"

\* Lists a caller rebinds option_flags to.
ReplacementFlags == Near(DefaultFlags, 1)

\* sim.option_flags[i] = v: the list changes, options_dict does not.
SetOptionFlag(i, v) ==
    /\ Configuring
    /\ option_flags[i] # v
    /\ LET new == [option_flags EXCEPT ![i] = v]
       IN  /\ Dist(DictValues(options_dict), DefaultFlags)
                + Dist(new, DictValues(options_dict)) <= MaxEdits
           /\ option_flags' = new
    /\ UNCHANGED <<options_dict, ref_time_per_stp, stop_time, time_ct, time_pts,
                   cell_bd_ct, retard_fac, sim_file, sim_ret, sim_handle, chk,
                   chk_ret, locvars>>

\* sim.option_flags = new: the attribute is rebound, options_dict is not rebuilt.
ReplaceOptionFlags(new) ==
    /\ Configuring
    /\ Dist(DictValues(options_dict), DefaultFlags)
         + Dist(new, DictValues(options_dict)) <= MaxEdits
    /\ option_flags' = new
    /\ UNCHANGED <<options_dict, ref_time_per_stp, stop_time, time_ct, time_pts,
                   cell_bd_ct, retard_fac, sim_file, sim_ret, sim_handle, chk,
                   chk_ret, locvars>>

\* ---------------------------------------------------- StartingLocationsFile
\* Group names a caller uses, in the byte order np.unique sorts them by, and
\* the particlegroup numbers a caller uses, in ascending order.
NameOrder == <<"A", "B">>
GroupNumbers == <<1, 2>>
\* Cell indices (k0, i0, j0) a caller uses, 0-based.
CellPool == {<<0, 0, 0>>, <<1, 0, 2>>}

\* One record of get_dtypes(); the in-cell offsets are in halves of a cell.
Particle(id, grp, cell, name) ==
    [particleid |-> id, particlegroup |-> grp, initialgrid |-> 1,
     k0 |-> cell[1], i0 |-> cell[2], j0 |-> cell[3],
     xloc0 |-> 1, yloc0 |-> 1, zloc0 |-> 1, initialtime |-> 0,
     label |-> "", groupname |-> name]

RECURSIVE RecordSets(_)
\* Record sets of up to n particles, numbered 1..n in order.
RecordSets(n) ==
    IF n = 0 THEN {<<>>}
    ELSE LET prev == RecordSets(n - 1)
         IN  prev \cup
             {Append(d, Particle(n, g, c, nm)) :
                d \in {p \in prev : Len(p) = n - 1},
                <<g, c, nm>> \in {GroupNumbers[x] : x \in DOMAIN GroupNumbers}
                                 \X CellPool
                                 \X {NameOrder[x] : x \in DOMAIN NameOrder}}

heading == "# Starting locations file for Modpath, generated by Flopy."
input_style == 1

NoFile == [exists |-> FALSE, heading |-> "", input_style |-> 0, ngroups |-> 0,
           groups |-> <<>>, rows |-> <<>>]
\* A file left at the output path by an earlier run.
OldFile == [exists |-> TRUE, heading |-> "# earlier run", input_style |-> 1,
            ngroups |-> 0, groups |-> <<>>, rows |-> <<>>]

\* data = data.copy(); data["k0"] += 1; data["i0"] += 1; data["j0"] += 1
CopyPlusOne(d) ==
    [r \in 1..Len(d) |-> [d[r] EXCEPT !.k0 = @ + 1, !.i0 = @ + 1, !.j0 = @ + 1]]

\* StoredAfterWrite without the copy: the increments land on self.data.
StoredAfterWrite_NoCopy(d) ==
    [r \in 1..Len(d) |-> [d[r] EXCEPT !.k0 = @ + 1, !.i0 = @ + 1, !.j0 = @ + 1]]

\* The stored records after write_file: the increments are made on the copy.
StoredAfterWrite(d) == d

\* One particle line: six integers, four floats in float_format, the label.
\* Both writers put one space between fields and format the floats alike.
RowLine(p) ==
    [ints |-> <<p.particleid, p.particlegroup, p.initialgrid, p.k0, p.i0, p.j0>>,
     floats |-> <<p.xloc0, p.yloc0, p.zloc0, p.initialtime>>,
     label |-> p.label]

Rows(d) == [r \in 1..Len(d) |-> RowLine(d[r])]

\* UniqueNames keeping the names in the order of their first appearance.
UniqueNames_FirstAppearance(d) ==
    LET firsts == SelectSeq([r \in 1..Len(d) |-> r],
                            LAMBDA r : \A q \in 1..(r - 1) : d[q].groupname # d[r].groupname)
    IN  [x \in 1..Len(firsts) |-> d[firsts[x]].groupname]

\* np.unique(data.groupname): the distinct names, sorted.
UniqueNames(d) ==
    SelectSeq(NameOrder, LAMBDA n : \E r \in 1..Len(d) : d[r].groupname = n)

\* _write_wo_pandas: a group line per distinct groupname, with its row count.
WoPandasGroups(d) ==
    LET groups == UniqueNames(d)
    IN  [x \in 1..Len(groups) |->
            [name |-> groups[x],
             npt |-> Cardinality({r \in 1..Len(d) : d[r].groupname = groups[x]})]]

_write_wo_pandas(d) ==
    [exists |-> TRUE, heading |-> heading, input_style |-> input_style,
     ngroups |-> Len(UniqueNames(d)), groups |-> WoPandasGroups(d), rows |-> Rows(d)]

\* dict(data[["particlegroup", "groupname"]].itertuples(False, None)): the
\* name of the last record of each particlegroup.
group_dict(d, g) ==
    LET last == CHOOSE r \in 1..Len(d) :
                    /\ d[r].particlegroup = g
                    /\ \A q \in (r + 1)..Len(d) : d[q].particlegroup # g
    IN  d[last].groupname

\* groupby("particlegroup").count(): the distinct group numbers, ascending.
GroupKeys(d) ==
    SelectSeq(GroupNumbers, LAMBDA g : \E r \in 1..Len(d) : d[r].particlegroup = g)

\* _write_particle_data_with_pandas: a group line per particlegroup number,
\* named by group_dict, with the number of rows of that particlegroup.
PandasGroups(d) ==
    LET keys == GroupKeys(d)
    IN  [x \in 1..Len(keys) |->
            [name |-> group_dict(d, keys[x]),
             npt |-> Cardinality({r \in 1..Len(d) : d[r].particlegroup = keys[x]})]]

_write_particle_data_with_pandas(d) ==
    [exists |-> TRUE, heading |-> heading, input_style |-> input_style,
     ngroups |-> Len(GroupKeys(d)), groups |-> PandasGroups(d), rows |-> Rows(d)]

\* if pd is not None and self.use_pandas and len(data) > 0
TakesPandasPath(d) == pd /\ use_pandas /\ Len(d) > 0

\* The file write_file leaves for the records d it was given (never empty here).
WrittenFile(d) ==
    IF TakesPandasPath(d)
    THEN _write_particle_data_with_pandas(CopyPlusOne(d))
    ELSE _write_wo_pandas(CopyPlusOne(d))

\* ReturnsEarly without the length test.
ReturnsEarly_Never(d) == FALSE

\* if len(data) == 0: print("No data to write!"); return
ReturnsEarly(d) == Len(d) = 0

\* StartingLocationsFile.write_file(data): arg is "None" (use self.data) or
\* "empty" (an explicit record set of length 0).  Both writers open the file
\* in a with block.
LocWriteFile(arg) ==
    LET d == IF arg = "None" THEN data ELSE <<>>
    IN  IF ReturnsEarly(d)
        THEN /\ loc_ret' = "noop"
             /\ loc_handle' = "none"
             /\ UNCHANGED <<data, use_pandas, pd, loc_file, simvars>>
        ELSE /\ loc_file' = WrittenFile(d)
             /\ data' = StoredAfterWrite(data)
             /\ loc_ret' = "ok"
             /\ loc_handle' = "closed"
             /\ UNCHANGED <<use_pandas, pd, simvars>>

\* ------------------------------------------------------------ initial states
\* Modpath6Sim(model, option_flags=flags, ...): the caller passes the fields
\* the flags call for (or leaves stop_time and the retardation arrays at
\* their defaults) and leaves the others at the constructor's defaults.
SimConstructed(flags) ==
    /\ option_flags = flags
    /\ options_dict = MakeOptionsDict(flags)
    /\ ref_time_per_stp \in (IF flags[5] = 2 THEN {<<0, 0, 1>>, <<1, 2, 0>>}
                             ELSE {<<0, 0, 1>>})
    /\ stop_time \in (IF flags[6] = 3 THEN {<<>>} \cup {<<t>> : t \in TimeVals}
                      ELSE {<<>>})
    /\ time_ct \in (IF flags[8] = 3 THEN 0..(MaxPts + 1) ELSE {1})
    /\ time_pts \in (IF flags[8] = 3 THEN SeqsUpTo(TimeVals, MaxPts) ELSE {<<1>>})
    /\ cell_bd_ct \in (IF flags[9] = 3 THEN 0..(Len(bud_loc) + 1) ELSE {1})
    /\ retard_fac \in (IF flags[11] = 2 THEN {"float", "Util3d"} ELSE {"float"})
    /\ sim_file = <<>>
    /\ sim_ret = "not_called"
    /\ sim_handle = "none"
    /\ chk = <<>>
    /\ chk_ret = "not_called"

\* StartingLocationsFile(model, use_pandas=u) and the records the caller
\* assigns to it (none: the stored default of zero records).
LocConstructed(records, u) ==
    /\ data = records
    /\ use_pandas = u
    /\ loc_ret = "not_called"
    /\ loc_handle = "none"

\* The starting-locations package with any records, with or without pandas,
\* with or without a file of an earlier run at its path.
LocAny ==
    /\ \E records \in RecordSets(MaxRows), u \in BOOLEAN : LocConstructed(records, u)
    /\ pd \in BOOLEAN
    /\ loc_file \in {NoFile, OldFile}
\* The starting-locations package as constructed.
LocDefault ==
    /\ LocConstructed(<<>>, TRUE)
    /\ pd = TRUE
    /\ loc_file = NoFile

InitSim ==
    /\ \E flags \in Near(DefaultFlags, MaxEdits) : SimConstructed(flags)
    /\ LocDefault
InitLoc ==
    /\ SimConstructed(DefaultFlags)
    /\ LocAny
\* The control-file package with either reference-time option.
InitBoth ==
    /\ \E v \in 1..LegalMax[5] : SimConstructed([DefaultFlags EXCEPT ![5] = v])
    /\ LocAny

NextSim ==
    \/ WriteFile
    \/ Check
    \/ \E i \in 1..12 : \E v \in 1..LegalMax[i] : SetOptionFlag(i, v)
    \/ \E new \in ReplacementFlags : ReplaceOptionFlags(new)

NextLoc == \E arg \in {"None", "empty"} : LocWriteFile(arg)

NextBoth == WriteFile \/ NextLoc

\* The control-file package in all its variety.
SpecSim == InitSim /\ [][NextSim]_vars
\* The starting-locations package in all its variety.
SpecLoc == InitLoc /\ [][NextLoc]_vars
\* Both writers, for the index conversions.
SpecBoth == InitBoth /\ [][NextBoth]_vars

\* ===================================================================== claims
Called == sim_ret # "not_called"
Items(file) == [x \in 1..Len(file) |-> file[x].item]
LinesOf(file, items) == SelectSeq(file, LAMBDA l : l.item \in items)
Repeat(item, n) == [x \in 1..n |-> item]
Opt(cond, items) == IF cond THEN items ELSE <<>>

\* Every conditional field the flags f call for is populated.
FieldsComplete(f) ==
    /\ f[6] = 3 => stop_time # <<>>
    /\ f[8] = 3 => time_ct <= Len(time_pts)
    /\ f[9] = 3 => cell_bd_ct <= Len(bud_loc)
    /\ f[11] # 1 => retard_fac = "Util3d"

\* The records of the flag truth table (records 1..16), as item names in order.
TruthTable(f) ==
    <<"heading", "mp_name_file", "mp_list_file", "option_flags", "endpoint_file">>
    \o Opt(f[1] = 2, <<"pathline_file">>)
    \o Opt(f[1] = 3, <<"time_ser_file">>)
    \o Opt(f[12] = 2 /\ f[1] = 3, <<"advobs_file">>)
    \o Opt(f[5] = 1, <<"ref_time">>)
    \o Opt(f[5] = 2, <<"ref_time_per_stp">>)
    \o Opt(f[6] = 3, <<"stop_time">>)
    \o Opt(f[7] = 1, <<"group_ct">> \o Items(GroupsFrom(1)))
    \o Opt(f[7] = 2, <<"strt_file">>)
    \o Opt(f[8] # 1 /\ f[8] \in {2, 3}, <<"time_ct">>)
    \o Opt(f[8] = 2, <<"release_time_incr">>)
    \o Opt(f[8] = 3, Repeat("time_pts", time_ct))
    \o Opt(f[9] = 3, <<"cell_bd_ct">> \o Repeat("bud_loc", cell_bd_ct))
    \o Opt(f[9] = 4, <<"trace_file", "trace_id">>)
    \o Opt(f[10] # 1, <<"stop_zone", "zone">>)
    \o Opt(f[11] # 1, <<"retard_fac", "retard_fcCB">>)

\* C1: for every legal 12-flag vector given at construction, with all
\* matching fields populated, write_file completes and the file holds
\* exactly the records of the flag truth table, in the table's order.
C1_ExactlyTruthTable ==
    (Called /\ option_flags = DictValues(options_dict) /\ FieldsComplete(option_flags))
        => /\ sim_ret = "ok"
           /\ Items(sim_file) = TruthTable(option_flags)

\* C5: the advective-observations file path is written iff
\* AdvectiveObservationsOption = 2 and SimulationType = 3, and with
\* AdvectiveObservationsOption = 2 the write goes on to the remaining records.
C5_AdvObsIffBoth ==
    (Called /\ FieldsComplete(DictValues(options_dict)))
        => /\ (LinesOf(sim_file, {"advobs_file"}) # <<>>)
                <=> (options_dict["AdvectiveObservationsOption"] = 2
                     /\ options_dict["SimulationType"] = 3)
           /\ options_dict["AdvectiveObservationsOption"] = 2 => sim_ret = "ok"

\* C8: no write call leaves the file handle it opened open, on any exit path
\* (normal return, early return on empty data, exception partway through).
C8_NoHandleLeftOpen == sim_handle # "open" /\ loc_handle # "open"

\* C10: at write time the 12 values on the option-flags line are the values
\* that decide the conditional records, and the flags the caller set are the
\* ones that decide whether check applies its rule.
C10_FlagsAgreeWithDict ==
    /\ Called => LinesOf(sim_file, {"option_flags"})
                    = <<Line("option_flags", DictValues(options_dict))>>
    /\ chk_ret # "not_called" =>
          ((option_flags[6] = 3 /\ option_flags[8] = 3)
             <=> (options_dict["StopOption"] = 3 /\ options_dict["TimePointOption"] = 3))

BudgetItems == {"cell_bd_ct", "bud_loc", "trace_file", "trace_id"}

\* The budget block BudgetOutputOption b calls for.
BudgetBlock(b) ==
    IF b = 3
    THEN <<Line("cell_bd_ct", <<cell_bd_ct>>)>>
         \o [k \in 1..cell_bd_ct |->
               Line("bud_loc", <<bud_loc[k][1], bud_loc[k][2] + 1,
                                 bud_loc[k][3] + 1, bud_loc[k][4] + 1>>)]
    ELSE IF b = 4
    THEN <<Line("trace_file", <<>>), Line("trace_id", <<trace_id>>)>>
    ELSE <<>>

\* write_file got past the budget block: it returned, or it raised at the
\* retardation arrays, which follow the block.
PastBudgetBlock ==
    \/ sim_ret = "ok"
    \/ sim_ret = "AttributeError" /\ options_dict["AdvectiveObservationsOption"] # 2

\* C9: the budget block written depends on BudgetOutputOption alone: 3 writes
\* the cell count and one line (grid, layer+1, row+1, col+1) for each of the
\* first cell_bd_ct entries of bud_loc, 4 writes the trace file path and the
\* trace id, 1 and 2 write no budget record.
C9_BudgetBlock ==
    /\ PastBudgetBlock =>
          LinesOf(sim_file, BudgetItems)
             = BudgetBlock(options_dict["BudgetOutputOption"])
    /\ options_dict["BudgetOutputOption"] \in {1, 2} =>
          LinesOf(sim_file, BudgetItems) = <<>>

\* C9's case: BudgetOutputOption = 3 with fewer cells counted than listed.
C9_Witness ==
    /\ sim_ret = "ok"
    /\ options_dict["BudgetOutputOption"] = 3
    /\ cell_bd_ct = 1
    /\ LinesOf(sim_file, BudgetItems)
         = <<Line("cell_bd_ct", <<1>>), Line("bud_loc", <<1, 1, 1, 1>>)>>

\* ------------------------------------------------ starting-locations claims
GroupNamesOf(d) == [r \in 1..Len(d) |-> d[r].groupname]
NamesWritten == [x \in 1..Len(loc_file.groups) |-> loc_file.groups[x].name]
RowWriterRan == loc_ret = "ok" /\ ~TakesPandasPath(data)
Rank(n) == CHOOSE x \in DOMAIN NameOrder : NameOrder[x] = n

\* C2: for every non-empty record set the row-oriented writer and the
\* bulk-tabular writer produce the same file: whichever of the two wrote the
\* file, it is the file the other one writes for the same records.
C2_WritersAgree ==
    loc_ret = "ok" =>
        /\ loc_file = _write_wo_pandas(CopyPlusOne(data))
        /\ loc_file = _write_particle_data_with_pandas(CopyPlusOne(data))

\* The group lines have the right count and member counts for their names.
GroupLinesCount ==
    /\ loc_file.ngroups = Cardinality({data[r].groupname : r \in 1..Len(data)})
    /\ Len(loc_file.groups) = loc_file.ngroups
    /\ \A x \in 1..Len(loc_file.groups) :
          /\ loc_file.groups[x].npt > 0
          /\ loc_file.groups[x].npt
               = Cardinality({r \in 1..Len(data) :
                                data[r].groupname = loc_file.groups[x].name})

C6_EmptyWriteIsNoOp ==
    [][/\ loc_ret' = "noop" =>
             loc_file' = loc_file /\ loc_handle' = "none" /\ data' = data
       /\ data = <<>> =>
             loc_file' = loc_file /\ loc_ret' \in {loc_ret, "noop"}]_vars

\* C6's case: an empty write on the pandas strategy with a file of an earlier
\* run at the path.
C6_Witness ==
    /\ loc_ret = "noop"
    /\ data = <<>>
    /\ use_pandas /\ pd
    /\ loc_file = OldFile
    /\ loc_handle = "none"

\* C7: the indices are made one-based in the output only: every particle row
\* holds k0+1, i0+1, j0+1 of the stored record (0,0,0 gives 1 1 1), the
\* reference line under ReferenceTimeOption = 2 holds period+1 and step+1 of
\* the stored ref_time_per_stp, and this holds after every write, the second
\* as the first.
C7_OneBasedOnDiskOnly ==
    /\ loc_ret = "ok" =>
          /\ Len(loc_file.rows) = Len(data)
          /\ \A r \in 1..Len(data) :
                /\ SubSeq(loc_file.rows[r].ints, 4, 6)
                     = <<data[r].k0 + 1, data[r].i0 + 1, data[r].j0 + 1>>
                /\ <<data[r].k0, data[r].i0, data[r].j0>> \in CellPool
    /\ Called =>
          /\ ref_time_per_stp[1] \in {0, 1}
          /\ LinesOf(sim_file, {"ref_time_per_stp"})
               = IF options_dict["ReferenceTimeOption"] = 2 /\ sim_ret = "ok"
                 THEN <<Line("ref_time_per_stp",
                             <<ref_time_per_stp[1] + 1, ref_time_per_stp[2] + 1,
                               ref_time_per_stp[3]>>)>>
                 ELSE <<>>

\* C7's case: a record at cell (0,0,0) written as 1 1 1, and period 0,
\* step 0 written as 1 1.
C7_Witness ==
    /\ loc_ret = "ok"
    /\ <<data[1].k0, data[1].i0, data[1].j0>> = <<0, 0, 0>>
    /\ SubSeq(loc_file.rows[1].ints, 4, 6) = <<1, 1, 1>>
    /\ sim_ret = "ok"
    /\ ref_time_per_stp = <<0, 0, 1>>
    /\ LinesOf(sim_file, {"ref_time_per_stp"}) = <<Line("ref_time_per_stp", <<1, 1, 1>>)>>

\* The time values write_file put after the time-point count line.
TimesWritten ==
    LET ls == LinesOf(sim_file, {"time_pts"})
    IN  [x \in 1..Len(ls) |-> ls[x].vals[1]]

\* C11: with StopOption = 3 and TimePointOption = 3, whenever check recorded
\* the passed entry "Valid stop time", write_file emits exactly time_ct time
\* values, the last of them is time_pts[-1], the value check compared with,
\* and the stop time written does not exceed it.
C11_CheckedAgainstLastWritten ==
    (/\ chk_ret = "ok" /\ chk # <<>> /\ chk[1].desc = "Valid stop time"
     /\ Called
     /\ options_dict["AdvectiveObservationsOption"] # 2)
        => /\ Len(TimesWritten) = time_ct
           /\ TimesWritten # <<>>
           /\ TimesWritten[Len(TimesWritten)] = time_pts[Len(time_pts)]
           /\ LinesOf(sim_file, {"stop_time"}) = <<Line("stop_time", stop_time)>>
           /\ stop_time[1] <= TimesWritten[Len(TimesWritten)]
====
